---- MODULE Spec2Model ----
(***************************************************************************)
(* Model of src/builtins/bitwise.ts of cairo-vm-ts:                        *)
(*   - bitwiseHandler, the Proxy handler that materialises the output      *)
(*     cells of a bitwise builtin segment when they are read;              *)
(*   - Instruction.decodeInstruction, the decoder of the first word of a   *)
(*     Cairo instruction.                                                  *)
(*                                                                         *)
(* TLC integers are 32 bits wide, an encoded instruction is a bigint of    *)
(* 63 bits and more.  An encoded word is therefore held in base 2^16:      *)
(*   value = w0 + w1*2^16 + w2*2^32 + w3*2^48 + hi*2^64                    *)
(* and the shifts and masks of the decoder are computed on the limbs.      *)
(***************************************************************************)
EXTENDS Integers, FiniteSets, Sequences, TLC

VARIABLES target, feltCtor, last, encodedInstruction, decoded

vars == <<target, feltCtor, last, encodedInstruction, decoded>>

(***************************************************************************)
(*                        PART 1: the decoder                              *)
(***************************************************************************)

\* 2^16: the radix of the limbs of an encoded word.
Limb == 65536

\* Instruction.BIAS = BigInt(2 ** 15)
BIAS == 32768

\* How far the part of a word above bit 63 is explored (hi \in 0..MaxHi).
MaxHi == 1

\* Biased offsets the offset sweep draws each of the three offsets from.
OffsetSamples == {0, 1, BIAS - 1, BIAS, Limb - 1}

\* Flag half-words (bits 48..63) the offset sweep is paired with.
FlagSamples == {0, 3, 12, 4096 + 1024 + 128, 16384 + 512 + 32, 32768}

\* Offsets the complete sweep of the flag half-word is paired with.
SweepOffsets == <<1, BIAS, Limb - 1>>

MkWord(a, b, c, f, h) == [w0 |-> a, w1 |-> b, w2 |-> c, w3 |-> f, hi |-> h]

\* The encoded words the model decodes: every value of the flag half-word,
\* bit 63 included; every combination of the sampled offsets with the
\* sampled flags; and words of more than 64 bits.
Words ==
    {MkWord(SweepOffsets[1], SweepOffsets[2], SweepOffsets[3], f, 0) :
        f \in 0..(Limb - 1)}
    \cup
    {MkWord(a, b, c, f, 0) :
        a \in OffsetSamples, b \in OffsetSamples, c \in OffsetSamples,
        f \in FlagSamples}
    \cup
    {MkWord(a, a, a, f, h) :
        a \in OffsetSamples, f \in FlagSamples, h \in 1..MaxHi}

\* n >> k and n & (2^m - 1) on a non-negative integer.
Pow2(k) == 2 ^ k
Shr(n, k) == n \div Pow2(k)
LowBits(n, m) == n % Pow2(m)

\* encodedInstruction >> 63n
highBitMutant(w) == w.hi
highBit(w) == w.hi * 2 + Shr(w.w3, 15)

\* encodedInstruction >> 48n
flagsOf(w) == w.w3 + w.hi * Limb

fromBiasedMutant(value) == value
fromBiased(value) == value - BIAS

Throw == "throw"

dstRegisterOf(flag) ==
    CASE flag = 0 -> "Ap"
      [] flag = 1 -> "Fp"
      [] OTHER -> Throw

op0RegisterOf(flag) ==
    CASE flag = 0 -> "Ap"
      [] flag = 1 -> "Fp"
      [] OTHER -> Throw

op1RegisterMutant(flag) ==
    CASE flag = 0 -> "Op0"
      [] flag = 1 -> "Pc"
      [] flag = 2 -> "Fp"
      [] flag = 3 -> "Fp"
      [] flag = 4 -> "Ap"
      [] OTHER -> Throw
op1RegisterOf(flag) ==
    CASE flag = 0 -> "Op0"
      [] flag = 1 -> "Pc"
      [] flag = 2 -> "Fp"
      [] flag = 4 -> "Ap"
      [] OTHER -> Throw

pcUpdateOf(flag) ==
    CASE flag = 0 -> "Regular"
      [] flag = 1 -> "Jump"
      [] flag = 2 -> "JumpRel"
      [] flag = 4 -> "Jnz"
      [] OTHER -> Throw

resLogicMutant(flag, pcUpdate) ==
    CASE flag = 0 -> "Op1"
      [] flag = 1 -> "Add"
      [] flag = 2 -> "Mul"
      [] OTHER -> Throw
resLogicOf(flag, pcUpdate) ==
    CASE flag = 0 -> (IF pcUpdate = "Jnz" THEN "Unused" ELSE "Op1")
      [] flag = 1 -> "Add"
      [] flag = 2 -> "Mul"
      [] OTHER -> Throw

opcodeOf(flag) ==
    CASE flag = 0 -> "NoOp"
      [] flag = 1 -> "Call"
      [] flag = 2 -> "Ret"
      [] flag = 4 -> "AssertEq"
      [] OTHER -> Throw

apUpdateMutant(flag, opcode) ==
    CASE flag = 0 -> (IF opcode = "Call" THEN "Add2" ELSE "Ap")
      [] flag = 1 -> "AddRes"
      [] flag = 2 -> "Ap"
      [] OTHER -> Throw
apUpdateOf(flag, opcode) ==
    CASE flag = 0 -> (IF opcode = "Call" THEN "Add2" ELSE "Ap")
      [] flag = 1 -> "AddRes"
      [] flag = 2 -> "Add1"
      [] OTHER -> Throw

fpUpdateOf(opcode) ==
    CASE opcode = "Call" -> "ApPlus2"
      [] opcode = "Ret" -> "Dst"
      [] OTHER -> "Fp"

\* new Instruction(...)
Instruction(dstOffset, op0Offset, op1Offset, dstReg, op0Register, op1Register, resLogic, pcUpdate, apUpdate, fpUpdate, opcode) ==
    [dstOffset |-> dstOffset, op0Offset |-> op0Offset, op1Offset |-> op1Offset,
     dstRegister |-> dstReg, op0Register |-> op0Register,
     op1Register |-> op1Register, resLogic |-> resLogic,
     pcUpdate |-> pcUpdate, apUpdate |-> apUpdate, fpUpdate |-> fpUpdate,
     opcode |-> opcode]

NoInstruction ==
    Instruction(0, 0, 0, "-", "-", "-", "-", "-", "-", "-", "-")

Thrown(e) == [error |-> e, instruction |-> NoInstruction]
Returned(i) == [error |-> "", instruction |-> i]
NotDecoded == [error |-> "pending", instruction |-> NoInstruction]

\* Instruction.decodeInstruction: the checks and the switches in the order of
\* the code; the first throw ends the call.
decodeInstruction(w) ==
    IF highBit(w) # 0 THEN Thrown("HighBitSetError")
    ELSE
    LET dstOffset == fromBiased(w.w0)
        op0Offset == fromBiased(w.w1)
        op1Offset == fromBiased(w.w2)
        flags == flagsOf(w)
        dstRegisterFlag == LowBits(flags, 1)
        op0RegisterFlag == LowBits(Shr(flags, 1), 1)
        op1RegisterFlag == LowBits(Shr(flags, 2), 3)
        resLogicFlag == LowBits(Shr(flags, 5), 2)
        pcUpdateFlag == LowBits(Shr(flags, 7), 3)
        apUpdateFlag == LowBits(Shr(flags, 10), 2)
        opcodeFlag == LowBits(Shr(flags, 12), 3)
        dstRegister == dstRegisterOf(dstRegisterFlag)
        op0Register == op0RegisterOf(op0RegisterFlag)
        op1Register == op1RegisterOf(op1RegisterFlag)
        pcUpdate == pcUpdateOf(pcUpdateFlag)
        resLogic == resLogicOf(resLogicFlag, pcUpdate)
        opcode == opcodeOf(opcodeFlag)
        apUpdate == apUpdateOf(apUpdateFlag, opcode)
        fpUpdate == fpUpdateOf(opcode)
    IN  IF dstRegister = Throw THEN Thrown("InvalidDstRegister")
        ELSE IF op0Register = Throw THEN Thrown("InvalidOp0Register")
        ELSE IF op1Register = Throw THEN Thrown("InvalidOp1Register")
        ELSE IF pcUpdate = Throw THEN Thrown("InvalidPcUpdate")
        ELSE IF resLogic = Throw THEN Thrown("InvalidResLogic")
        ELSE IF opcode = Throw THEN Thrown("InvalidOpcode")
        ELSE IF apUpdate = Throw THEN Thrown("InvalidApUpdate")
        ELSE Returned(Instruction(dstOffset, op0Offset, op1Offset, dstRegister,
                                  op0Register, op1Register, resLogic, pcUpdate,
                                  apUpdate, fpUpdate, opcode))

(***************************************************************************)
(*                   PART 2: the bitwise builtin handler                   *)
(***************************************************************************)

\* const cellsPerBitwise = 5; const inputCellsPerBitwise = 2;
cellsPerBitwise == 5
inputCellsPerBitwise == 2

\* The bases of the bitwise blocks the model explores: the first two blocks
\* of the segment.
BlockBases == {0, cellsPerBitwise}
\* Stand-in for the field prime p = 2^251 + 17*2^192 + 1, here 2^1 + 1: as
\* with p, the OR and the XOR of two canonical values can reach p and more.
PRIME == 3

\* The cells of these blocks.
Offsets ==
    {b + k : b \in BlockBases, k \in 0..(cellsPerBitwise - 1)}

\* SegmentValue | undefined
Undefined == [t |-> "undefined", v |-> 0]
FeltOf(n) == [t |-> "felt", v |-> n]
RelocatableValue == [t |-> "relocatable", v |-> 0]
Felts == {FeltOf(n) : n \in 0..(PRIME - 1)}
SegmentValues == Felts \cup {RelocatableValue}

\* isFelt(value)
isFelt(value) == value.t = "felt"

\* x & y, x ^ y, x | y on non-negative integers, bit by bit.
RECURSIVE BitAnd(_, _), BitXor(_, _), BitOr(_, _)
BitAnd(x, y) ==
    IF x = 0 \/ y = 0 THEN 0
    ELSE (x % 2) * (y % 2) + 2 * BitAnd(x \div 2, y \div 2)
BitXor(x, y) ==
    IF x = 0 THEN y ELSE IF y = 0 THEN x
    ELSE ((x + y) % 2) + 2 * BitXor(x \div 2, y \div 2)
BitOr(x, y) ==
    IF x = 0 THEN y ELSE IF y = 0 THEN x
    ELSE (IF x % 2 = 1 \/ y % 2 = 1 THEN 1 ELSE 0)
         + 2 * BitOr(x \div 2, y \div 2)

\* The % of JavaScript: the result takes the sign of the dividend.
JsRem(a, b) == IF a >= 0 THEN a % b ELSE -((-a) % b)

\* target[offset]: undefined outside the assigned cells.
At(seg, offset) == IF offset \in DOMAIN seg THEN seg[offset] ELSE Undefined

\* target.length
Length(seg) ==
    LET used == {o \in DOMAIN seg : seg[o] # Undefined}
    IN  IF used = {} THEN 0
        ELSE 1 + (CHOOSE o \in used : \A q \in used : q <= o)

\* new Felt(n).  A Felt is canonical (in [0, p)); what the constructor does
\* with an integer outside that range is fixed per build: it throws, or it
\* reduces the integer mod p.
FeltNew(n, ctor) ==
    IF n < PRIME THEN [error |-> "", value |-> FeltOf(n)]
    ELSE IF ctor = "throw" THEN [error |-> "FeltError", value |-> Undefined]
    ELSE [error |-> "", value |-> FeltOf(n % PRIME)]

\* The switch of the handler on bitwiseIndex.
bitwiseOpMutant(bitwiseIndex, x, y) ==
    CASE bitwiseIndex = 2 -> BitAnd(x, y)
      [] bitwiseIndex = 3 -> BitOr(x, y)
      [] bitwiseIndex = 4 -> BitXor(x, y)
bitwiseOp(bitwiseIndex, x, y) ==
    CASE bitwiseIndex = 2 -> BitAnd(x, y)
      [] bitwiseIndex = 3 -> BitXor(x, y)
      [] bitwiseIndex = 4 -> BitOr(x, y)

\* What an operation leaves in `last`: the operation, its property, what it
\* returned or what it threw.
Done(op, prop, ret) ==
    [op |-> op, prop |-> prop, ret |-> ret, error |-> "", address |-> 0]
Raised(op, prop, e, a) ==
    [op |-> op, prop |-> prop, ret |-> Undefined, error |-> e, address |-> a]

\* if (!value) throw new UndefinedValue(offset);
\* if (!isFelt(value)) throw new ExpectedFelt();
checkInputMutant(value, offset) ==
    IF ~isFelt(value) THEN [error |-> "ExpectedFelt", address |-> 0]
    ELSE IF value = Undefined
    THEN [error |-> "UndefinedValue", address |-> offset]
    ELSE [error |-> "", address |-> 0]
checkInput(value, offset) ==
    IF value = Undefined THEN [error |-> "UndefinedValue", address |-> offset]
    ELSE IF ~isFelt(value) THEN [error |-> "ExpectedFelt", address |-> 0]
    ELSE [error |-> "", address |-> 0]

\* target[offset] = value
storeMutant(seg, offset, value) == seg
store(seg, offset, value) == [seg EXCEPT ![offset] = value]

\* bitwiseHandler.get(target, prop) for a numeric prop: the segment and the
\* outcome after the call.
get(seg, prop, ctor) ==
    LET offset == prop
        bitwiseIndex == JsRem(offset, cellsPerBitwise)
        xOffset == offset - bitwiseIndex
        xValue == At(seg, xOffset)
        xCheck == checkInput(xValue, xOffset)
        yOffset == xOffset + 1
        yValue == At(seg, yOffset)
        yCheck == checkInput(yValue, yOffset)
        made == FeltNew(bitwiseOp(bitwiseIndex, xValue.v, yValue.v), ctor)
        stored == store(seg, offset, made.value)
    IN  IF bitwiseIndex < inputCellsPerBitwise
        THEN [seg |-> seg, out |-> Done("get", prop, At(seg, offset))]
        ELSE IF xCheck.error # ""
        THEN [seg |-> seg,
              out |-> Raised("get", prop, xCheck.error, xCheck.address)]
        ELSE IF yCheck.error # ""
        THEN [seg |-> seg,
              out |-> Raised("get", prop, yCheck.error, yCheck.address)]
        ELSE IF made.error # ""
        THEN [seg |-> seg, out |-> Raised("get", prop, made.error, 0)]
        ELSE [seg |-> stored, out |-> Done("get", prop, At(stored, offset))]

\* A read of a numeric property through the view.
Get(prop) ==
    LET r == get(target, prop, feltCtor)
    IN  /\ target' = r.seg
        /\ last' = r.out
        /\ UNCHANGED <<feltCtor, encodedInstruction, decoded>>

\* A read of a non-numeric property: Reflect.get(target, prop), here "length".
GetLength ==
    /\ last' = Done("length", 0, [t |-> "number", v |-> Length(target)])
    /\ UNCHANGED <<target, feltCtor, encodedInstruction, decoded>>

\* The block of a cell.
BlockOf(offset) == offset \div cellsPerBitwise

\* An assignment through the view.  The handler has no set trap: the value
\* goes to target[prop] as it is.  The writer of a segment is the write-once
\* memory, which assigns a cell that holds no value yet.  get reads and
\* writes the block of its property only: a run of the model assigns the
\* cells of one block, whichever it is.
Set(prop, value) ==
    /\ target[prop] = Undefined
    /\ \A o \in Offsets : target[o] # Undefined => BlockOf(o) = BlockOf(prop)
    /\ target' = [target EXCEPT ![prop] = value]
    /\ last' = Done("set", prop, value)
    /\ UNCHANGED <<feltCtor, encodedInstruction, decoded>>

ZeroWord == MkWord(0, 0, 0, 0, 0)

Init ==
    /\ target = [o \in Offsets |-> Undefined]
    /\ feltCtor \in {"throw", "reduce"}
    /\ last = Done("none", 0, Undefined)
    /\ encodedInstruction = ZeroWord
    /\ decoded = NotDecoded

\* The numeric properties read: the cells, and an offset below the segment.
Props == {-1} \cup Offsets

Next ==
    \/ \E prop \in Props : Get(prop)
    \/ GetLength
    \/ \E prop \in Offsets, value \in SegmentValues : Set(prop, value)

Spec == Init /\ [][Next]_vars

\* The decoder applied to the word drawn by InitDecode.
Decode ==
    /\ decoded = NotDecoded
    /\ decoded' = decodeInstruction(encodedInstruction)
    /\ UNCHANGED <<target, feltCtor, last, encodedInstruction>>

InitDecode ==
    /\ target = [o \in Offsets |-> Undefined]
    /\ feltCtor = "throw"
    /\ last = Done("none", 0, Undefined)
    /\ encodedInstruction \in Words
    /\ decoded = NotDecoded

NextDecode == Decode

SpecDecode == InitDecode /\ [][NextDecode]_vars

(***************************************************************************)
(*                     PART 3: the claims, bitwise                         *)
(***************************************************************************)

\* The cell is an output cell of its block (block-relative offset 2, 3, 4).
IsOutput(o) == o >= 0 /\ o % 5 >= 2
\* The first cell of the block of cell o.
BaseOf(o) == o - (o % 5)
\* The AND, XOR, OR of x and y for the block-relative offsets 2, 3, 4.
Expected(o, x, y) ==
    IF o % 5 = 2 THEN BitAnd(x, y)
    ELSE IF o % 5 = 3 THEN BitXor(x, y)
    ELSE BitOr(x, y)
\* The last operation was a read of an output cell.
OutputRead == last.op = "get" /\ IsOutput(last.prop)
\* The two input cells of the block of the cell last operated on.
LastX == target[BaseOf(last.prop)]
LastY == target[BaseOf(last.prop) + 1]

\* C1 (as stated): whenever the two input cells of a block hold Felts x and
\* y, a read of the block's cell at offset 2, 3, 4 returns the Felt x AND y,
\* x XOR y, x OR y.  (A read of an output cell leaves the input cells as
\* they were, so LastX and LastY are the inputs the read saw.)
C1_ReadReturnsBitwise ==
    (OutputRead /\ isFelt(LastX) /\ isFelt(LastY))
        => last = Done("get", last.prop,
                       FeltOf(Expected(last.prop, LastX.v, LastY.v)))

\* C1 (amended): the same, for the reads whose result is a canonical field
\* element (below PRIME); x AND y always is.
C1_ReadReturnsBitwiseInRange ==
    (/\ OutputRead /\ isFelt(LastX) /\ isFelt(LastY)
     /\ Expected(last.prop, LastX.v, LastY.v) < PRIME)
        => last = Done("get", last.prop,
                       FeltOf(Expected(last.prop, LastX.v, LastY.v)))

\* Witness of C1: in the second block, with inputs 1 and 1, the reads of the
\* XOR cell returned 0.
C1_Witness ==
    /\ last = Done("get", cellsPerBitwise + 3, FeltOf(0))
    /\ target[cellsPerBitwise] = FeltOf(1)
    /\ target[cellsPerBitwise + 1] = FeltOf(1)

\* C2 (as stated): a read never changes a cell that holds a value to another
\* value; a read of an output cell that holds a value other than the
\* computed one raises InconsistentMemory.
C2_ReadIsWriteOnce ==
    [][last'.op = "get" =>
        \A o \in Offsets :
            target[o] # Undefined =>
                /\ target'[o] = target[o]
                /\ (/\ o = last'.prop /\ IsOutput(o)
                    /\ isFelt(target[BaseOf(o)]) /\ isFelt(target[BaseOf(o) + 1])
                    /\ target[o] # FeltOf(Expected(o, target[BaseOf(o)].v,
                                                   target[BaseOf(o) + 1].v)))
                   => last'.error = "InconsistentMemory"]_vars

\* C3 (as stated): a write to an output cell whose block has its two inputs
\* is accepted only if the value written is the value the builtin computes.
C3_WriteMustMatch ==
    (/\ last.op = "set" /\ IsOutput(last.prop)
     /\ isFelt(LastX) /\ isFelt(LastY)
     /\ Expected(last.prop, LastX.v, LastY.v) < PRIME)
        => target[last.prop] = FeltOf(Expected(last.prop, LastX.v, LastY.v))

\* First part of C4: a read of an output cell with an unusable input throws,
\* the first input checked before the second and "assigned" before "is a
\* Felt", ...
C4_FailureKinds ==
    OutputRead =>
        /\ LastX = Undefined
            => last = Raised("get", last.prop, "UndefinedValue",
                             BaseOf(last.prop))
        /\ (LastX # Undefined /\ LastX.t # "felt")
            => last = Raised("get", last.prop, "ExpectedFelt", 0)
        /\ (LastX.t = "felt" /\ LastY = Undefined)
            => last = Raised("get", last.prop, "UndefinedValue",
                             BaseOf(last.prop) + 1)
        /\ (LastX.t = "felt" /\ LastY # Undefined /\ LastY.t # "felt")
            => last = Raised("get", last.prop, "ExpectedFelt", 0)
\* ... and a read that throws one of these leaves the segment as it was.
C4_FailureKeepsSegment ==
    (last'.op = "get" /\ last'.error \in {"UndefinedValue", "ExpectedFelt"})
        => target' = target
\* C4: a read of an output cell whose block has an unusable input throws
\* UndefinedValue (with the input's offset) or ExpectedFelt, first input
\* first, and leaves the segment exactly as it was.
C4_FailingReads == []C4_FailureKinds /\ [][C4_FailureKeepsSegment]_vars

\* Witness of C4: a read of an output cell of the second block threw
\* UndefinedValue for the second input, the first being a Felt.
C4_Witness ==
    /\ last = Raised("get", cellsPerBitwise + 4, "UndefinedValue",
                     cellsPerBitwise + 1)
    /\ target[cellsPerBitwise] = FeltOf(2)
    /\ target[cellsPerBitwise + 2] = RelocatableValue

\* First part of C5: after a successful read of an output cell the segment
\* holds the value returned, the Felt computed from the two inputs; reading the cell again, at once or after a read of any
\* other property, returns the same value and leaves the segment as it is;
\* a read of an input cell (or below the segment) returns what the segment
\* holds there, undefined if nothing, ...
C5_Memoized ==
    /\ (OutputRead /\ last.error = "") =>
        /\ target[last.prop] = last.ret
        /\ isFelt(last.ret)
        /\ Expected(last.prop, LastX.v, LastY.v) < PRIME
              => last.ret.v = Expected(last.prop, LastX.v, LastY.v)
        /\ get(target, last.prop, feltCtor) = [seg |-> target, out |-> last]
        /\ \A q \in Props :
              LET s == get(target, q, feltCtor).seg
              IN  get(s, last.prop, feltCtor) = [seg |-> s, out |-> last]
    /\ (last.op = "get" /\ ~IsOutput(last.prop)) =>
        last = Done("get", last.prop, At(target, last.prop))
\* ... and does not modify the segment.
C5_InputReadKeepsSegment ==
    (last'.op = "get" /\ ~IsOutput(last'.prop)) => target' = target
\* C5: reads are memoized and repeatable: a successful read of an output
\* cell leaves the computed value in the segment and later reads return it
\* again without changing the segment; reads of input cells return what is
\* stored and never modify the segment.
C5_RepeatableReads == []C5_Memoized /\ [][C5_InputReadKeepsSegment]_vars

\* Witness of C5: the AND cell of the first block was read with inputs 2 and
\* 2 and holds the 2 returned, the two other output cells hold values too.
C5_Witness ==
    /\ last = Done("get", 2, FeltOf(2))
    /\ target[0] = FeltOf(2) /\ target[1] = FeltOf(2)
    /\ target[2] = FeltOf(2)
    /\ target[3] = FeltOf(0) /\ target[4] = FeltOf(2)

(***************************************************************************)
(*                     PART 4: the claims, decoder                         *)
(***************************************************************************)

\* The decoder has run on encodedInstruction.
WasDecoded == decoded # NotDecoded
\* encodedInstruction >= 2^63
AtLeast2Pow63 == encodedInstruction.hi > 0 \/ encodedInstruction.w3 >= 32768
\* The bits lo .. lo+width-1 of the flag half-word (bits 48..63 of the word).
FlagBits(lo, width) == (encodedInstruction.w3 \div (2 ^ lo)) % (2 ^ width)
OneHot == {0, 1, 2, 4}
FieldsLegal ==
    /\ FlagBits(2, 3) \in OneHot
    /\ FlagBits(7, 3) \in OneHot
    /\ FlagBits(12, 3) \in OneHot
    /\ FlagBits(5, 2) # 3
    /\ FlagBits(10, 2) # 3

\* C6: decodeInstruction throws HighBitSetError for every word >= 2^63,
\* whatever its other fields, and for no word below 2^63.
C6_HighBit ==
    WasDecoded => (AtLeast2Pow63 <=> decoded.error = "HighBitSetError")

\* Witness of C6: a word with bit 63 set and illegal op1_src bits (3) was
\* decoded, and HighBitSetError was thrown.
C6_Witness ==
    /\ decoded.error = "HighBitSetError"
    /\ encodedInstruction.hi = 0
    /\ encodedInstruction.w3 = 32768 + 12

\* C7: a word below 2^63 decodes iff its five validated fields are legal;
\* otherwise the error is the kind of a field of the word that is illegal,
\* and never InvalidDstRegister or InvalidOp0Register.
C7_Validation ==
    (WasDecoded /\ ~AtLeast2Pow63) =>
        /\ decoded.error = "" <=> FieldsLegal
        /\ decoded.error \in {"", "InvalidOp1Register", "InvalidPcUpdate",
                              "InvalidResLogic", "InvalidOpcode",
                              "InvalidApUpdate"}
        /\ decoded.error = "InvalidOp1Register" => FlagBits(2, 3) \notin OneHot
        /\ decoded.error = "InvalidPcUpdate" => FlagBits(7, 3) \notin OneHot
        /\ decoded.error = "InvalidOpcode" => FlagBits(12, 3) \notin OneHot
        /\ decoded.error = "InvalidResLogic" => FlagBits(5, 2) = 3
        /\ decoded.error = "InvalidApUpdate" => FlagBits(10, 2) = 3

\* Witness of C7: a word whose only illegal field is ap_update (3) was
\* decoded and InvalidApUpdate was thrown.
C7_Witness ==
    /\ decoded.error = "InvalidApUpdate"
    /\ FlagBits(2, 3) = 4 /\ FlagBits(7, 3) = 2 /\ FlagBits(12, 3) = 1
    /\ FlagBits(5, 2) = 2

\* C8: the flag fields of a decoded instruction follow the layout table,
\* with its rules for res_logic 0 (Unused iff Jnz), ap_update 0 (Add2 iff
\* Call) and the derived fp_update.
C8_Layout ==
    decoded.error = "" =>
        LET i == decoded.instruction
        IN  /\ i.dstRegister = (IF FlagBits(0, 1) = 0 THEN "Ap" ELSE "Fp")
            /\ i.op0Register = (IF FlagBits(1, 1) = 0 THEN "Ap" ELSE "Fp")
            /\ i.op1Register =
                  (CASE FlagBits(2, 3) = 0 -> "Op0" [] FlagBits(2, 3) = 1 -> "Pc"
                     [] FlagBits(2, 3) = 2 -> "Fp" [] FlagBits(2, 3) = 4 -> "Ap"
                     [] OTHER -> "none")
            /\ i.pcUpdate =
                  (CASE FlagBits(7, 3) = 0 -> "Regular"
                     [] FlagBits(7, 3) = 1 -> "Jump"
                     [] FlagBits(7, 3) = 2 -> "JumpRel"
                     [] FlagBits(7, 3) = 4 -> "Jnz"
                     [] OTHER -> "none")
            /\ i.opcode =
                  (CASE FlagBits(12, 3) = 0 -> "NoOp"
                     [] FlagBits(12, 3) = 1 -> "Call"
                     [] FlagBits(12, 3) = 2 -> "Ret"
                     [] FlagBits(12, 3) = 4 -> "AssertEq"
                     [] OTHER -> "none")
            /\ FlagBits(5, 2) = 1 => i.resLogic = "Add"
            /\ FlagBits(5, 2) = 2 => i.resLogic = "Mul"
            /\ FlagBits(5, 2) = 0 =>
                  /\ i.resLogic \in {"Unused", "Op1"}
                  /\ i.resLogic = "Unused" <=> i.pcUpdate = "Jnz"
            /\ FlagBits(10, 2) = 1 => i.apUpdate = "AddRes"
            /\ FlagBits(10, 2) = 2 => i.apUpdate = "Add1"
            /\ FlagBits(10, 2) = 0 =>
                  /\ i.apUpdate \in {"Add2", "Ap"}
                  /\ i.apUpdate = "Add2" <=> i.opcode = "Call"
            /\ i.fpUpdate = (IF i.opcode = "Call" THEN "ApPlus2"
                             ELSE IF i.opcode = "Ret" THEN "Dst" ELSE "Fp")

\* Witness of C8: a decoded Jnz with res_logic bits 0 (Unused), and one of
\* the two context rules of ap_update at work.
C8_Witness ==
    /\ decoded.error = ""
    /\ decoded.instruction.pcUpdate = "Jnz"
    /\ decoded.instruction.resLogic = "Unused"
    /\ decoded.instruction.opcode = "Call"
    /\ decoded.instruction.apUpdate = "Add2"
    /\ decoded.instruction.fpUpdate = "ApPlus2"

\* The word of an instruction, by the layout table read from the
\* instruction to the bits.
EncodeFlags(i) ==
    (IF i.dstRegister = "Fp" THEN 1 ELSE 0)
    + 2 * (IF i.op0Register = "Fp" THEN 1 ELSE 0)
    + 4 * (CASE i.op1Register = "Op0" -> 0 [] i.op1Register = "Pc" -> 1
             [] i.op1Register = "Fp" -> 2 [] OTHER -> 4)
    + 32 * (CASE i.resLogic = "Add" -> 1 [] i.resLogic = "Mul" -> 2
              [] OTHER -> 0)
    + 128 * (CASE i.pcUpdate = "Regular" -> 0 [] i.pcUpdate = "Jump" -> 1
               [] i.pcUpdate = "JumpRel" -> 2 [] OTHER -> 4)
    + 1024 * (CASE i.apUpdate = "AddRes" -> 1 [] i.apUpdate = "Add1" -> 2
                [] OTHER -> 0)
    + 4096 * (CASE i.opcode = "NoOp" -> 0 [] i.opcode = "Call" -> 1
                [] i.opcode = "Ret" -> 2 [] OTHER -> 4)
Encode(i) ==
    MkWord(i.dstOffset + 32768, i.op0Offset + 32768, i.op1Offset + 32768,
           EncodeFlags(i), 0)

\* C9: a decoded instruction encodes to the word it was decoded from, and
\* to no other (so no two words below 2^63 decode to the same instruction),
\* and decoding its encoding gives the instruction again.
C9_RoundTrip ==
    decoded.error = "" =>
        /\ Encode(decoded.instruction) = encodedInstruction
        /\ decodeInstruction(Encode(decoded.instruction)) = decoded

\* Witness of C9: an instruction with ap_update Add1 and an immediate
\* operand was decoded.
C9_Witness ==
    /\ decoded.error = ""
    /\ decoded.instruction.apUpdate = "Add1"
    /\ decoded.instruction.op1Register = "Pc"
    /\ decoded.instruction.resLogic = "Op1"

\* C10: each decoded offset is its own 16-bit field of the word minus 2^15,
\* whatever the two other fields and the flags, and so lies in
\* [-2^15, 2^15 - 1].
C10_Offsets ==
    decoded.error = "" =>
        LET i == decoded.instruction
        IN  /\ i.dstOffset = encodedInstruction.w0 - 32768
            /\ i.op0Offset = encodedInstruction.w1 - 32768
            /\ i.op1Offset = encodedInstruction.w2 - 32768
            /\ \A off \in {i.dstOffset, i.op0Offset, i.op1Offset} :
                  off >= -32768 /\ off <= 32767

\* Witness of C10: the least and the greatest offset decoded from one word
\* whose flags are not all zero.
C10_Witness ==
    /\ decoded.error = ""
    /\ decoded.instruction.dstOffset = -32768
    /\ decoded.instruction.op0Offset = 0
    /\ decoded.instruction.op1Offset = 32767
    /\ encodedInstruction.w3 = 3

====
